---- MODULE Spec2Model ----
(* The diagram editor of App.tsx / Flowchart.tsx as a state machine: the     *)
(* React state of App (diagram, history, viewport, requests in flight), the  *)
(* useDraggable sessions, the pinch handler and the auto-resize effect.      *)
(* One action is one event handler (or one effect pass) run to completion;   *)
(* a render separates two events, so a handler sees the state of the         *)
(* previous step, except across an await, where it sees the state captured   *)
(* when the request started.                                                 *)
EXTENDS Integers, Sequences, FiniteSets, TLC

(* ---------------------------------------------------------------------- *)
(* Bounds of the model                                                      *)
(* ---------------------------------------------------------------------- *)
MaxHistory == 3
MaxAdded == 2
MaxTouches == 3
MaxPan == 40
MaxSessions == 2

(* ---------------------------------------------------------------------- *)
(* Numbers: JavaScript numbers as exact rationals n/d, d > 0, lowest terms  *)
(* ---------------------------------------------------------------------- *)
Abs(i) == IF i < 0 THEN -i ELSE i

RECURSIVE GCD(_, _)
GCD(a, b) == IF b = 0 THEN a ELSE GCD(b, a % b)

Rat(n, d) ==
    LET s == IF d < 0 THEN -1 ELSE 1
        g == GCD(Abs(n), Abs(d))
    IN  [n |-> (s * n) \div g, d |-> (s * d) \div g]

R(i) == [n |-> i, d |-> 1]
RAdd(a, b) == Rat(a.n * b.d + b.n * a.d, a.d * b.d)
RSub(a, b) == Rat(a.n * b.d - b.n * a.d, a.d * b.d)
RMul(a, b) == Rat(a.n * b.n, a.d * b.d)
RDiv(a, b) == Rat(a.n * b.d, a.d * b.n)
RLt(a, b) == a.n * b.d < b.n * a.d
RLe(a, b) == a.n * b.d <= b.n * a.d
RMax(a, b) == IF RLt(a, b) THEN b ELSE a
RMin(a, b) == IF RLt(b, a) THEN b ELSE a
RFloor(a) == a.n \div a.d

Pos(x, y) == [x |-> R(x), y |-> R(y)]

(* ---------------------------------------------------------------------- *)
(* The diagram document                                                     *)
(* ---------------------------------------------------------------------- *)
NoData == [null |-> TRUE]
NoNode == [id |-> "null"]
NoPos == [none |-> TRUE]
MINDMAP == "Mind Map"
FLOWCHART == "Flowchart"

Node(id, text, x, y, w, h) ==
    [id |-> id, text |-> text, position |-> Pos(x, y), size |-> [w |-> w, h |-> h]]

Conn(from, to) == [from |-> from, to |-> to]

DEFAULT_FLOWCHART_DATA ==
    [ canvas |-> [width |-> 1500, height |-> 1300],
      nodes |-> << Node("n1", "brief", 140, 320, 680, 86),
                   Node("n2", "brief", 140, 460, 680, 86),
                   Node("n3", "brief", 140, 610, 680, 86),
                   Node("n4", "brief", 140, 760, 680, 86),
                   Node("n5", "brief", 160, 960, 640, 68) >>,
      connectors |-> << Conn("n1", "n2"), Conn("n2", "n3"), Conn("n3", "n4"),
                        Conn("n4", "n1"), Conn("n4", "n5") >>,
      sideBoxes |-> << [attachToNode |-> "n5"] >>,
      supportingPanel |-> [position |-> Pos(860, 320),
                           items |-> << [connectsToNode |-> "n1"],
                                        [connectsToNode |-> "n3"] >>],
      diagramType |-> "undefined" ]

Range(s) == {s[i] : i \in DOMAIN s}
NodeIds(data) == IF data = NoData THEN {} ELSE {n.id : n \in Range(data.nodes)}
FindNode(data, id) == CHOOSE n \in Range(data.nodes) : n.id = id

\* data.nodes.map(f): f is a function on the nodes of data
MapNodes(data, f) ==
    [data EXCEPT !.nodes = [i \in DOMAIN data.nodes |-> f[data.nodes[i]]]]

(* ---------------------------------------------------------------------- *)
(* State                                                                    *)
(* ---------------------------------------------------------------------- *)
VARIABLES
    flowchartData,    \* App: the diagram shown, or NoData
    history,          \* App: sequence of snapshots
    historyIndex,     \* App: 0-based index into history
    diagramType,      \* App: the diagram type selected in the controls
    zoom, pan,        \* App: viewport
    editingNode,      \* App: the node open in the editor panel, or NoNode
    isLoading, error, \* App: diagram generation in flight / error banner
    topic,            \* App: the topic typed in the controls
    memo,             \* Flowchart: the nodeColorMap computation (its props, root,
                      \* colors, processed set and queue, and where it stands)
    genReq,           \* handleGenerate in flight: the values its closure holds
    subReq,           \* handleGenerateSubnodes in flight: the values its closure holds
    drag,             \* the useDraggable hook whose session is active: dragState,
                      \* position and the window listeners it has registered (NoDrag
                      \* when no hook is dragging: start and elStart of an ended
                      \* session are never read again)
    touches,          \* touch points down now, by where they started, and zoom and
                      \* pan as they were when the second of two fingers went down
    pinch,            \* closure variables of the pinch effect
    pendingMeasure,   \* node ids whose auto-resize layout effect has to run
    clock,            \* Date.now(), counted in created ids
    sess              \* log of the latest drag session: the position last reported
                      \* (at first the start position), onDragEnd calls, how it ended,
                      \* the number n of sessions so far, and whether a touch move
                      \* with more than one touch point happened during the session

vars == << flowchartData, history, historyIndex, diagramType, zoom, pan, editingNode,
           isLoading, error, topic, memo, genReq, subReq, drag, touches, pinch, pendingMeasure, clock, sess >>

NoDrag == [isDragging |-> FALSE, who |-> [kind |-> "none"],
           start |-> [x |-> 0, y |-> 0], elStart |-> Pos(0, 0), position |-> Pos(0, 0),
           listeners |-> {}]
NoSess == [n |-> 0, expected |-> NoPos, commits |-> 0, commitArg |-> NoPos, ended |-> "none",
           multi |-> FALSE, shown |-> NoData]
NoReq == [pending |-> FALSE]
NoColors == [id \in {} |-> ""]
NoMemo == [pc |-> "props", data |-> NoData, type |-> FLOWCHART, root |-> NoNode,
           colors |-> NoColors, processed |-> {}, queue |-> << >>]

Init ==
    /\ flowchartData = DEFAULT_FLOWCHART_DATA
    /\ history = << DEFAULT_FLOWCHART_DATA >>
    /\ historyIndex = 0
    /\ diagramType = FLOWCHART
    /\ zoom = R(1)
    /\ pan = Pos(0, 0)
    /\ editingNode = NoNode
    /\ isLoading = FALSE
    /\ error = "null"
    /\ topic = "How a gasoline engine works"
    /\ memo = NoMemo
    /\ genReq = NoReq
    /\ subReq = NoReq
    /\ drag = NoDrag
    /\ touches = [in |-> 0, out |-> 0, gesture |-> NoPos]
    /\ pinch = [startDist |-> 0, startZoom |-> R(1), startPan |-> Pos(0, 0),
                center |-> [x |-> 0, y |-> 0]]
    /\ pendingMeasure = NodeIds(DEFAULT_FLOWCHART_DATA)
    /\ clock = 0
    /\ sess = NoSess

Idle == pendingMeasure = {}
\* a click is delivered after the pointer went up, which ends a session
CanClick == Idle /\ ~drag.isDragging

(* ---------------------------------------------------------------------- *)
(* Auto-resize of a node (DraggableNode's layout effect)                    *)
(* ---------------------------------------------------------------------- *)
MinNodeHeight == 86
NodePadding == 40
Hysteresis == 5
Max(a, b) == IF a < b THEN b ELSE a
Min(a, b) == IF b < a THEN b ELSE a

\* contentRef.current.scrollHeight: what the browser measures for the node's text
scrollHeight(node) == IF node.text = "long" THEN 120 ELSE 46

handleNodeSizeChange(prev, nodeId, newSize) ==
    IF prev = NoData THEN NoData
    ELSE MapNodes(prev, [node \in Range(prev.nodes) |->
                            IF node.id = nodeId THEN [node EXCEPT !.size = newSize] ELSE node])

AutoResize(data, node) ==
    LET contentHeight == scrollHeight(node)
        newHeight == Max(MinNodeHeight, contentHeight + NodePadding)
    IN  IF Abs(newHeight - node.size.h) > Hysteresis
        THEN handleNodeSizeChange(data, node.id, [w |-> node.size.w, h |-> newHeight])
        ELSE data

RECURSIVE RunEffects(_, _, _)
RunEffects(rendered, data, ids) ==
    IF ids = {} THEN data
    ELSE LET id == CHOOSE i \in ids : TRUE
         IN  RunEffects(rendered, AutoResize(data, FindNode(rendered, id)), ids \ {id})

\* the effect runs when a DraggableNode mounts or one of its dependencies changes
EffectDeps(node, type) == << node.text, node.size.w, node.id, type >>
Triggered(old, oldType, new, newType) ==
    {id \in NodeIds(new) :
        \/ id \notin NodeIds(old)
        \/ EffectDeps(FindNode(old, id), oldType) # EffectDeps(FindNode(new, id), newType)}

\* a variant that records the measured size in the current history entry
AutoResizeEffect_Records ==
    /\ pendingMeasure # {}
    /\ flowchartData' = RunEffects(flowchartData, flowchartData,
                                   pendingMeasure \cap NodeIds(flowchartData))
    /\ pendingMeasure' = {}
    /\ history' = IF 0 <= historyIndex /\ historyIndex < Len(history)
                  THEN [history EXCEPT ![historyIndex + 1] = flowchartData']
                  ELSE history
    /\ UNCHANGED << historyIndex, diagramType, zoom, pan, editingNode, isLoading,
                    error, topic, memo, genReq, subReq, drag, touches, pinch, clock, sess >>

AutoResizeEffect ==
    /\ pendingMeasure # {}
    /\ flowchartData' = RunEffects(flowchartData, flowchartData,
                                   pendingMeasure \cap NodeIds(flowchartData))
    /\ pendingMeasure' = {}
    /\ UNCHANGED << history, historyIndex, diagramType, zoom, pan, editingNode, isLoading,
                    error, topic, memo, genReq, subReq, drag, touches, pinch, clock, sess >>

(* ---------------------------------------------------------------------- *)
(* Rendering a new diagram: effects to run, draggables that unmount         *)
(* ---------------------------------------------------------------------- *)
\* the listener effect of useDraggable: the cleanup of the previous run removes the
\* four listeners, the run adds them while dragging; prev is what was registered
WindowListeners == {"mousemove", "touchmove", "mouseup", "touchend"}

\* a variant whose cleanup forgets the touch listeners
ListenerEffect_KeepsTouch(prev, isDragging) ==
    (prev \ {"mousemove", "mouseup"}) \cup (IF isDragging THEN WindowListeners ELSE {})

ListenerEffect(prev, isDragging) ==
    (prev \ WindowListeners) \cup (IF isDragging THEN WindowListeners ELSE {})

\* the hook after its session ended (or its component unmounted)
Ended == [NoDrag EXCEPT !.listeners = ListenerEffect(drag.listeners, FALSE)]
Listening(type) == type \in drag.listeners

Mounted(data, who) ==
    CASE who.kind = "node" -> who.id \in NodeIds(data)
      [] who.kind = "panel" -> data # NoData /\ data.supportingPanel # NoData
      [] who.kind \in {"resize", "canvas"} -> data # NoData
      [] OTHER -> FALSE

\* setFlowchartData(nd) and the render that follows it
Shows(nd) ==
    /\ flowchartData' = nd
    /\ pendingMeasure' = Triggered(flowchartData, diagramType, nd, diagramType)

\* a hook whose component unmounts loses its session (the effect cleanup runs);
\* a session that goes on now acts on the diagram nd
KeepDrag(nd) ==
    IF drag.isDragging /\ ~Mounted(nd, drag.who)
    THEN drag' = Ended /\ sess' = [sess EXCEPT !.ended = "unmount", !.shown = NoData]
    ELSE /\ UNCHANGED drag
         /\ sess' = IF drag.isDragging THEN [sess EXCEPT !.shown = nd] ELSE sess

(* ---------------------------------------------------------------------- *)
(* History: pushToHistory, handleUndo, handleRedo                           *)
(* ---------------------------------------------------------------------- *)
HistAt(h, i) == IF 0 <= i /\ i < Len(h) THEN h[i + 1] ELSE NoData
Slice(s, end) == SubSeq(s, 1, Min(end, Len(s)))
CanCommit == Len(history) < MaxHistory /\ historyIndex < MaxHistory

\* capturedIndex is the historyIndex of the render that created the callback
pushToHistory(capturedIndex, newData) ==
    /\ history' = Append(Slice(history, capturedIndex + 1), newData)
    /\ historyIndex' = historyIndex + 1
    /\ Shows(newData)

\* a variant that pops the entries it steps back over
handleUndo_DropsRedo ==
    /\ Idle
    /\ IF historyIndex > 0
       THEN LET prevData == HistAt(history, historyIndex - 1)
            IN  /\ historyIndex' = historyIndex - 1
                /\ history' = Slice(history, historyIndex)
                /\ Shows(prevData)
                /\ KeepDrag(prevData)
                /\ UNCHANGED << diagramType, zoom, pan, editingNode, isLoading,
                                error, topic, memo, genReq, subReq, touches, pinch, clock >>
       ELSE UNCHANGED vars

handleUndo ==
    /\ Idle
    /\ IF historyIndex > 0
       THEN LET prevData == HistAt(history, historyIndex - 1)
            IN  /\ historyIndex' = historyIndex - 1
                /\ Shows(prevData)
                /\ KeepDrag(prevData)
                /\ UNCHANGED << history, diagramType, zoom, pan, editingNode, isLoading,
                                error, topic, memo, genReq, subReq, touches, pinch, clock >>
       ELSE UNCHANGED vars

\* a variant without the test for the last entry
handleRedo_Unguarded ==
    /\ Idle
    /\ LET nextData == HistAt(history, historyIndex + 1)
       IN  /\ historyIndex' = historyIndex + 1
           /\ Shows(nextData)
           /\ KeepDrag(nextData)
           /\ UNCHANGED << history, diagramType, zoom, pan, editingNode, isLoading,
                           error, topic, memo, genReq, subReq, touches, pinch, clock >>

handleRedo ==
    /\ Idle
    /\ IF historyIndex < Len(history) - 1
       THEN LET nextData == HistAt(history, historyIndex + 1)
            IN  /\ historyIndex' = historyIndex + 1
                /\ Shows(nextData)
                /\ KeepDrag(nextData)
                /\ UNCHANGED << history, diagramType, zoom, pan, editingNode, isLoading,
                                error, topic, memo, genReq, subReq, touches, pinch, clock >>
       ELSE UNCHANGED vars
(* ---------------------------------------------------------------------- *)
(* Handlers of App that commit                                              *)
(* ---------------------------------------------------------------------- *)
Texts == {"brief", "long"}
EditableIds == {"n1", "n5", "a1"}
InnerWidth == 1200
InnerHeight == 800
CanvasInputs == {0, 1600}

\* onNodeDoubleClick = setEditingNode
DoubleClick(id) ==
    /\ CanClick
    /\ id \in NodeIds(flowchartData)
    /\ editingNode' = FindNode(flowchartData, id)
    /\ UNCHANGED << flowchartData, history, historyIndex, diagramType, zoom, pan, isLoading,
                    error, topic, memo, genReq, subReq, drag, touches, pinch, pendingMeasure, clock, sess >>

handleNodeEditSave(newText) ==
    /\ CanClick /\ CanCommit
    /\ editingNode # NoNode /\ flowchartData # NoData
    /\ LET newData == MapNodes(flowchartData,
                               [n \in Range(flowchartData.nodes) |->
                                   IF n.id = editingNode.id
                                   THEN [n EXCEPT !.text = newText] ELSE n])
       IN  pushToHistory(historyIndex, newData) /\ KeepDrag(newData)
    /\ editingNode' = NoNode
    /\ UNCHANGED << diagramType, zoom, pan, isLoading, error, topic, memo, genReq, subReq, touches, pinch, clock >>

handleDeleteNode ==
    /\ CanClick /\ CanCommit
    /\ editingNode # NoNode /\ flowchartData # NoData
    /\ LET newData ==
             [flowchartData EXCEPT
                !.nodes = SelectSeq(@, LAMBDA n : n.id # editingNode.id),
                !.connectors = SelectSeq(@, LAMBDA c : c.from # editingNode.id
                                                       /\ c.to # editingNode.id),
                !.sideBoxes = SelectSeq(@, LAMBDA b : b.attachToNode # editingNode.id)]
       IN  pushToHistory(historyIndex, newData) /\ KeepDrag(newData)
    /\ editingNode' = NoNode
    /\ UNCHANGED << diagramType, zoom, pan, isLoading, error, topic, memo, genReq, subReq, touches, pinch, clock >>

NewNodeId(t) == << "a1", "a2", "a3", "a4" >>[t + 1]
NewSubnodeId(t) == << "s1", "s2", "s3", "s4" >>[t + 1]

handleAddNode ==
    /\ CanClick /\ CanCommit
    /\ clock < MaxAdded
    /\ flowchartData # NoData
    /\ LET centerX == RAdd(RDiv(RSub(R(0), pan.x), zoom), RDiv(Rat(InnerWidth, 2), zoom))
           centerY == RAdd(RDiv(RSub(R(0), pan.y), zoom), RDiv(Rat(InnerHeight, 2), zoom))
           newNode == [id |-> NewNodeId(clock), text |-> "brief",
                       position |-> [x |-> RMax(R(0), RSub(centerX, R(300))),
                                     y |-> RMax(R(0), RSub(centerY, R(40)))],
                       size |-> [w |-> 600, h |-> 80]]
           newData == [flowchartData EXCEPT !.nodes = Append(@, newNode)]
       IN  pushToHistory(historyIndex, newData) /\ KeepDrag(newData)
    /\ clock' = clock + 1
    /\ UNCHANGED << diagramType, zoom, pan, editingNode, isLoading, error, topic, memo, genReq, subReq,
                    touches, pinch >>

\* a variant that rounds down without the minimum of 100
CanvasOf_NoMinimum(newSize) ==
    [width |-> RFloor(newSize.w), height |-> RFloor(newSize.h)]

\* newSize.w and newSize.h are rationals; the canvas keeps integers
CanvasOf(newSize) ==
    [width |-> Max(100, RFloor(newSize.w)), height |-> Max(100, RFloor(newSize.h))]

DiagramVars == << flowchartData, history, historyIndex, pendingMeasure >>

handleCanvasResize(newSize, commit) ==
    IF flowchartData = NoData THEN UNCHANGED DiagramVars
    ELSE LET newData == [flowchartData EXCEPT !.canvas = CanvasOf(newSize)]
         IN  IF commit
             THEN pushToHistory(historyIndex, newData)
             ELSE Shows(newData) /\ UNCHANGED << history, historyIndex >>

\* the numeric width / height inputs of the controls
onCanvasSizeChange(d, v) ==
    /\ CanClick /\ CanCommit
    /\ LET current == IF flowchartData = NoData THEN [width |-> 1200, height |-> 1000]
                      ELSE flowchartData.canvas
           newSize == [w |-> IF d = "width" THEN R(v) ELSE R(current.width),
                       h |-> IF d = "height" THEN R(v) ELSE R(current.height)]
       IN  handleCanvasResize(newSize, TRUE)
    /\ UNCHANGED << diagramType, zoom, pan, editingNode, isLoading, error, topic, memo, genReq, subReq, drag,
                    touches, pinch, clock, sess >>

(* ---------------------------------------------------------------------- *)
(* handleRender: the JSON editor                                            *)
(* ---------------------------------------------------------------------- *)
\* what the JSON editor holds when Render is clicked: a text cut off in the middle,
\* the literal null, a document whose node is 83 high, and a document with
\* connectors and a side box that name a node it does not have
JsonTexts == {"{ canvas: {", "null", "83 high", "dangling"}

\* JSON.parse on these texts: a value, or the SyntaxError it throws
JSON_parse(text) ==
    LET Doc(nodes, connectors, sideBoxes) ==
            [canvas |-> [width |-> 1200, height |-> 1000], nodes |-> nodes,
             connectors |-> connectors, sideBoxes |-> sideBoxes,
             supportingPanel |-> NoData, diagramType |-> MINDMAP]
    IN  CASE text = "null" -> [threw |-> FALSE, value |-> NoData]
          [] text = "83 high" ->
                 [threw |-> FALSE,
                  value |-> Doc(<< Node("n1", "brief", 450, 460, 300, 83) >>, << >>, << >>)]
          [] text = "dangling" ->
                 [threw |-> FALSE,
                  value |-> Doc(<< Node("n1", "brief", 450, 460, 300, 86),
                                   Node("n2", "long", 100, 460, 300, 160) >>,
                                << Conn("n1", "zz"), Conn("zz", "n2"), Conn("n1", "n2") >>,
                                << [attachToNode |-> "zz"], [attachToNode |-> "n2"] >>)]
          [] OTHER -> [threw |-> TRUE]

handleRender(text) ==
    /\ CanClick /\ CanCommit
    /\ LET parsed == JSON_parse(text)
       IN  IF parsed.threw
           THEN /\ error' = "Invalid JSON format."
                /\ UNCHANGED << flowchartData, history, historyIndex, pendingMeasure, drag, sess >>
           ELSE /\ pushToHistory(historyIndex, parsed.value)
                /\ KeepDrag(parsed.value)
                /\ error' = "null"
    /\ UNCHANGED << diagramType, zoom, pan, editingNode, isLoading, topic, memo, genReq,
                    subReq, touches, pinch, clock >>

\* a variant that commits every update, live or final
handlePanelPositionChange_AlwaysCommits(newPosition, commit) ==
    IF flowchartData = NoData THEN UNCHANGED DiagramVars
    ELSE IF flowchartData.supportingPanel = NoData THEN UNCHANGED DiagramVars
    ELSE pushToHistory(historyIndex,
                       [flowchartData EXCEPT !.supportingPanel.position = newPosition])

handlePanelPositionChange(newPosition, commit) ==
    IF flowchartData = NoData THEN UNCHANGED DiagramVars
    ELSE IF flowchartData.supportingPanel = NoData THEN UNCHANGED DiagramVars
    ELSE LET newData == [flowchartData EXCEPT !.supportingPanel.position = newPosition]
         IN  IF commit
             THEN pushToHistory(historyIndex, newData)
             ELSE Shows(newData) /\ UNCHANGED << history, historyIndex >>

\* a variant that moves the dragged node alone in every mode
handleNodePositionChange_NodeAlone(nodeId, newPosition, commit) ==
    IF flowchartData = NoData THEN UNCHANGED DiagramVars
    ELSE LET newData == MapNodes(flowchartData,
                            [node \in Range(flowchartData.nodes) |->
                                IF node.id = nodeId
                                THEN [node EXCEPT !.position = newPosition]
                                ELSE node])
         IN  IF commit
             THEN pushToHistory(historyIndex, newData)
             ELSE Shows(newData) /\ UNCHANGED << history, historyIndex >>

handleNodePositionChange(nodeId, newPosition, commit) ==
    IF flowchartData = NoData THEN UNCHANGED DiagramVars
    ELSE LET isMindMap == flowchartData.diagramType = MINDMAP \/ diagramType = MINDMAP
             isRootNode == isMindMap
                           /\ ~(\E c \in Range(flowchartData.connectors) : c.to = nodeId)
             newData ==
                 IF isRootNode
                 THEN IF nodeId \in NodeIds(flowchartData)
                      THEN LET oldPos == FindNode(flowchartData, nodeId).position
                               dx == RSub(newPosition.x, oldPos.x)
                               dy == RSub(newPosition.y, oldPos.y)
                           IN  MapNodes(flowchartData,
                                   [node \in Range(flowchartData.nodes) |-> [node EXCEPT
                                       !.position = [x |-> RAdd(node.position.x, dx),
                                                     y |-> RAdd(node.position.y, dy)]]])
                      ELSE flowchartData
                 ELSE MapNodes(flowchartData,
                          [node \in Range(flowchartData.nodes) |->
                              IF node.id = nodeId
                              THEN [node EXCEPT !.position = newPosition]
                              ELSE node])
         IN  IF commit
             THEN pushToHistory(historyIndex, newData)
             ELSE Shows(newData) /\ UNCHANGED << history, historyIndex >>

(* ---------------------------------------------------------------------- *)
(* useDraggable: one hook per node, panel, resize handle and canvas         *)
(* ---------------------------------------------------------------------- *)
DragNodeIds == {"n1"}
RootDragIds == {"n1", "n2", "a1"}
StartPts == {[x |-> 0, y |-> 0]}
PointerPts == {[x |-> 0, y |-> 0], [x |-> 40, y |-> 20]}
Whos == {[kind |-> "node", id |-> i] : i \in DragNodeIds}
        \cup {[kind |-> "panel"], [kind |-> "resize"], [kind |-> "canvas"]}
\* the draggables the touch sessions of the model start on
TouchWhos == {[kind |-> "node", id |-> i] : i \in DragNodeIds} \cup {[kind |-> "canvas"]}

\* the initialPosition argument of the hook
InitialPosition(who) ==
    CASE who.kind = "node" -> FindNode(flowchartData, who.id).position
      [] who.kind = "panel" -> flowchartData.supportingPanel.position
      [] who.kind = "resize" -> Pos(flowchartData.canvas.width, flowchartData.canvas.height)
      [] who.kind = "canvas" -> pan

\* the scale argument of the hook
Scale(who) == IF who.kind = "canvas" THEN R(1) ELSE zoom

\* a variant whose canvas session records its release in the history
DragCallback_PanCommits(who, p, commit) ==
    CASE who.kind = "node" ->
             handleNodePositionChange(who.id, p, commit) /\ UNCHANGED pan
      [] who.kind = "panel" ->
             handlePanelPositionChange(p, commit) /\ UNCHANGED pan
      [] who.kind = "resize" ->
             /\ handleCanvasResize([w |-> RMax(R(100), p.x), h |-> RMax(R(100), p.y)], commit)
             /\ UNCHANGED pan
      [] who.kind = "canvas" ->
             /\ pan' = p
             /\ IF commit THEN pushToHistory(historyIndex, flowchartData)
                ELSE UNCHANGED DiagramVars

\* onDrag (commit = FALSE) and onDragEnd (commit = TRUE) of each draggable
DragCallback(who, p, commit) ==
    CASE who.kind = "node" ->
             handleNodePositionChange(who.id, p, commit) /\ UNCHANGED pan
      [] who.kind = "panel" ->
             handlePanelPositionChange(p, commit) /\ UNCHANGED pan
      [] who.kind = "resize" ->
             /\ handleCanvasResize([w |-> RMax(R(100), p.x), h |-> RMax(R(100), p.y)], commit)
             /\ UNCHANGED pan
      [] who.kind = "canvas" ->
             pan' = p /\ UNCHANGED DiagramVars

handleStart(who, client) ==
    /\ drag' = [isDragging |-> TRUE, who |-> who, start |-> client,
                elStart |-> InitialPosition(who), position |-> InitialPosition(who),
                listeners |-> ListenerEffect(drag.listeners, TRUE)]
    /\ sess' = [NoSess EXCEPT !.n = sess.n + 1, !.expected = InitialPosition(who),
                            !.shown = flowchartData]

\* a variant that adds the delta to the position of the previous update
LiveUpdate_FromLastPosition(client) ==
    LET dx == RDiv(R(client.x - drag.start.x), Scale(drag.who))
        dy == RDiv(R(client.y - drag.start.y), Scale(drag.who))
        newPos == [x |-> RAdd(drag.position.x, dx), y |-> RAdd(drag.position.y, dy)]
    IN  /\ drag' = [drag EXCEPT !.position = newPos]
        /\ DragCallback(drag.who, newPos, FALSE)
        /\ sess' = [sess EXCEPT !.expected = newPos]

\* handleMove past the multi-touch test: a live update
LiveUpdate(client) ==
    LET dx == RDiv(R(client.x - drag.start.x), Scale(drag.who))
        dy == RDiv(R(client.y - drag.start.y), Scale(drag.who))
        newPos == [x |-> RAdd(drag.elStart.x, dx), y |-> RAdd(drag.elStart.y, dy)]
    IN  /\ drag' = [drag EXCEPT !.position = newPos]
        /\ DragCallback(drag.who, newPos, FALSE)
        /\ sess' = [sess EXCEPT !.expected = newPos]

\* handleMove with more than one touch point
CancelDrag ==
    /\ drag' = Ended
    /\ sess' = [sess EXCEPT !.ended = "cancel", !.multi = TRUE, !.shown = NoData]
    /\ UNCHANGED << DiagramVars, pan >>

handleMove(client, nTouches) ==
    IF ~drag.isDragging THEN UNCHANGED << drag, sess, DiagramVars, pan >>
    ELSE IF nTouches > 1 THEN CancelDrag
    ELSE LiveUpdate(client)

\* a variant that commits the position the element had when the session started
handleEnd_StartPosition ==
    IF ~drag.isDragging THEN UNCHANGED << drag, sess, DiagramVars, pan >>
    ELSE /\ drag' = Ended
         /\ DragCallback(drag.who, drag.elStart, TRUE)
         /\ sess' = [sess EXCEPT !.commits = @ + 1, !.commitArg = drag.elStart,
                                 !.ended = "release", !.shown = NoData]

\* a variant that reports a release only if the element has moved
handleEnd_SkipsUnmoved ==
    IF ~drag.isDragging THEN UNCHANGED << drag, sess, DiagramVars, pan >>
    ELSE /\ drag' = Ended
         /\ IF drag.position = drag.elStart THEN UNCHANGED << DiagramVars, pan >>
            ELSE DragCallback(drag.who, drag.position, TRUE)
         /\ sess' = [sess EXCEPT !.commits = @ + 1, !.commitArg = drag.position,
                                 !.ended = "release", !.shown = NoData]

handleEnd ==
    IF ~drag.isDragging THEN UNCHANGED << drag, sess, DiagramVars, pan >>
    ELSE /\ drag' = Ended
         /\ DragCallback(drag.who, drag.position, TRUE)
         /\ sess' = [sess EXCEPT !.commits = @ + 1, !.commitArg = drag.position,
                                 !.ended = "release", !.shown = NoData]
(* ---------------------------------------------------------------------- *)
(* Pinch zoom: the native touch listeners of the canvas container           *)
(* ---------------------------------------------------------------------- *)
MinZoom == Rat(2, 10)
MaxZoom == R(3)
StartDists == {100}
PinchDists == {100, 200}
PinchCenter == [x |-> 400, y |-> 300]
NTouches == touches.in + touches.out

handleTouchStart(nTouches, dist) ==
    IF nTouches = 2
    THEN pinch' = [startDist |-> dist, startZoom |-> zoom, startPan |-> pan,
                   center |-> PinchCenter]
    ELSE UNCHANGED pinch

\* a variant that does not clamp the new zoom
PinchUpdate_Unclamped(dist) ==
    IF pinch.startDist > 0 /\ dist > 0
    THEN LET scale == Rat(dist, pinch.startDist)
             newZoom == RMul(pinch.startZoom, scale)
             k == RSub(RDiv(R(1), newZoom), RDiv(R(1), pinch.startZoom))
         IN  /\ zoom' = newZoom
             /\ pan' = [x |-> RAdd(pinch.startPan.x, RMul(R(pinch.center.x), k)),
                        y |-> RAdd(pinch.startPan.y, RMul(R(pinch.center.y), k))]
    ELSE UNCHANGED << zoom, pan >>

\* the body of handleTouchMove for two touch points; it also stops propagation
PinchUpdate(dist) ==
    IF pinch.startDist > 0 /\ dist > 0
    THEN LET scale == Rat(dist, pinch.startDist)
             newZoom == RMax(MinZoom, RMin(MaxZoom, RMul(pinch.startZoom, scale)))
             k == RSub(RDiv(R(1), newZoom), RDiv(R(1), pinch.startZoom))
         IN  /\ zoom' = newZoom
             /\ pan' = [x |-> RAdd(pinch.startPan.x, RMul(R(pinch.center.x), k)),
                        y |-> RAdd(pinch.startPan.y, RMul(R(pinch.center.y), k))]
    ELSE UNCHANGED << zoom, pan >>

\* canvasPan, the position of the canvas hook that the viewBox is computed from:
\* the hook follows its initialPosition (pan) only while it is not dragging
canvasPan ==
    IF drag.isDragging /\ drag.who.kind = "canvas" THEN drag.position ELSE pan

(* ---------------------------------------------------------------------- *)
(* Pointer events                                                           *)
(* ---------------------------------------------------------------------- *)
Commits(who) == who.kind # "canvas"
MayEnd == drag.isDragging /\ Commits(drag.who) => CanCommit
\* sessions the model follows: a commit must fit the history bound, a pan the pan bound
MayStart(who) ==
    /\ sess.n < MaxSessions
    /\ IF Commits(who) THEN CanCommit
       ELSE Abs(pan.x.n) < MaxPan * pan.x.d /\ Abs(pan.y.n) < MaxPan * pan.y.d

MouseDown(who, client, button) ==
    /\ Idle /\ ~drag.isDragging /\ NTouches = 0
    /\ Mounted(flowchartData, who)
    /\ MayStart(who)
    /\ IF button # 0 THEN UNCHANGED << drag, sess >> ELSE handleStart(who, client)
    /\ UNCHANGED << flowchartData, history, historyIndex, diagramType, zoom, pan,
                    editingNode, isLoading, error, topic, memo, genReq, subReq, touches, pinch,
                    pendingMeasure, clock >>

MouseMove(client) ==
    /\ Idle /\ Listening("mousemove") /\ NTouches = 0
    /\ handleMove(client, 0)
    /\ UNCHANGED << diagramType, zoom, editingNode, isLoading, error, topic, memo, genReq,
                    subReq, touches, pinch, clock >>

MouseUp ==
    /\ Idle /\ Listening("mouseup") /\ NTouches = 0
    /\ MayEnd
    /\ handleEnd
    /\ UNCHANGED << diagramType, zoom, editingNode, isLoading, error, topic, memo, genReq,
                    subReq, touches, pinch, clock >>

\* a finger goes down inside the container (on the draggable who) or outside of it
TouchStart(where, who, client, dist) ==
    /\ Idle /\ NTouches < MaxTouches
    /\ ~(drag.isDragging /\ NTouches = 0)
    /\ touches' = [touches EXCEPT ![where] = @ + 1,
                                  !.gesture = IF NTouches + 1 = 2
                                              THEN [zoom |-> zoom, pan |-> pan]
                                              ELSE NoPos]
    /\ IF where = "in"
       THEN /\ Mounted(flowchartData, who)
            /\ IF NTouches + 1 > 1 THEN UNCHANGED << drag, sess >>
               ELSE MayStart(who) /\ handleStart(who, client)
            /\ handleTouchStart(NTouches + 1, dist)
       ELSE UNCHANGED << drag, sess, pinch >>
    /\ UNCHANGED << flowchartData, history, historyIndex, diagramType, zoom, pan,
                    editingNode, isLoading, error, topic, memo, genReq, subReq, pendingMeasure,
                    clock >>

\* a finger moves: the event passes the container (if the finger started inside),
\* then reaches the window listeners of the hook
TouchMove(where, client, dist) ==
    /\ Idle /\ touches[where] > 0
    /\ IF where = "in" /\ NTouches = 2
       THEN /\ PinchUpdate(dist)
            /\ sess' = IF drag.isDragging THEN [sess EXCEPT !.multi = TRUE] ELSE sess
            /\ UNCHANGED << drag, DiagramVars >>
       ELSE /\ IF Listening("touchmove") THEN handleMove(client, NTouches)
               ELSE UNCHANGED << drag, sess, DiagramVars, pan >>
            /\ UNCHANGED zoom
    /\ UNCHANGED << diagramType, editingNode, isLoading, error, topic, memo, genReq, subReq,
                    touches, pinch, clock >>

TouchEnd(where) ==
    /\ Idle /\ touches[where] > 0
    /\ MayEnd
    /\ touches' = [touches EXCEPT ![where] = @ - 1, !.gesture = NoPos]
    /\ IF Listening("touchend") THEN handleEnd
       ELSE UNCHANGED << drag, sess, DiagramVars, pan >>
    /\ UNCHANGED << diagramType, zoom, editingNode, isLoading, error, topic, memo, genReq,
                    subReq, pinch, clock >>
(* ---------------------------------------------------------------------- *)
(* handleGenerate: the request and its two outcomes                         *)
(* ---------------------------------------------------------------------- *)
\* what generateFlowchartJson returns for a diagram type
Generated(type) ==
    [ canvas |-> [width |-> 1200, height |-> 1000],
      nodes |-> << Node("n1", "brief", 450, 460, 300, 86),
                   Node("n2", "long", 100, 460, 300, 86),
                   Node("n3", "brief", 800, 460, 300, 86) >>,
      connectors |-> << Conn("n1", "n2"), Conn("n1", "n3") >>,
      sideBoxes |-> << >>,
      supportingPanel |-> NoData,
      diagramType |-> type ]

\* the Generate button is disabled while isLoading or without a topic
handleGenerate ==
    /\ CanClick
    /\ ~isLoading /\ topic # ""
    /\ IF topic = ""
       THEN error' = "Please enter a topic." /\ UNCHANGED << isLoading, genReq >>
       ELSE /\ isLoading' = TRUE
            /\ error' = "null"
            /\ genReq' = [pending |-> TRUE, diagramType |-> diagramType]
    /\ UNCHANGED << flowchartData, history, historyIndex, diagramType, zoom, pan,
                    editingNode, topic, memo, subReq, drag, touches, pinch, pendingMeasure,
                    clock, sess >>

GenerateResolve ==
    /\ Idle /\ genReq.pending
    /\ LET data == Generated(genReq.diagramType)
       IN  /\ Shows(data)
           /\ KeepDrag(data)
           /\ history' = << data >>
    /\ historyIndex' = 0
    /\ zoom' = R(1)
    /\ pan' = Pos(0, 0)
    /\ isLoading' = FALSE
    /\ genReq' = NoReq
    /\ UNCHANGED << diagramType, editingNode, error, topic, memo, subReq, touches, pinch, clock >>

\* a variant that resets the viewport as a success does
GenerateReject_ResetsView ==
    /\ Idle /\ genReq.pending
    /\ isLoading' = FALSE
    /\ error' = "Failed to generate flowchart"
    /\ genReq' = NoReq
    /\ zoom' = R(1)
    /\ pan' = Pos(0, 0)
    /\ UNCHANGED << flowchartData, history, historyIndex, diagramType,
                    editingNode, topic, memo, subReq, drag, touches, pinch, pendingMeasure,
                    clock, sess >>

\* a variant whose failure path leaves the spinner on
GenerateReject_KeepsLoading ==
    /\ Idle /\ genReq.pending
    /\ error' = "Failed to generate flowchart"
    /\ genReq' = NoReq
    /\ UNCHANGED << flowchartData, history, historyIndex, diagramType, zoom, pan,
                    editingNode, isLoading, topic, memo, subReq, drag, touches, pinch,
                    pendingMeasure, clock, sess >>

GenerateReject ==
    /\ Idle /\ genReq.pending
    /\ isLoading' = FALSE
    /\ error' = "Failed to generate flowchart"
    /\ genReq' = NoReq
    /\ UNCHANGED << flowchartData, history, historyIndex, diagramType, zoom, pan,
                    editingNode, topic, memo, subReq, drag, touches, pinch, pendingMeasure,
                    clock, sess >>

(* ---------------------------------------------------------------------- *)
(* handleGenerateSubnodes: the request and its outcomes                     *)
(* ---------------------------------------------------------------------- *)
SubnodeCounts == {0, 1}
Radius == 350

RECURSIVE SqrtBetween(_, _, _)
SqrtBetween(n, lo, hi) ==
    IF lo >= hi THEN lo
    ELSE LET mid == (lo + hi + 1) \div 2
         IN  IF mid * mid <= n THEN SqrtBetween(n, mid, hi) ELSE SqrtBetween(n, lo, mid - 1)
ISqrt(n) == SqrtBetween(n, 0, n)

\* (cos, sin) of Math.atan2(dy, dx), to the precision of an integer square root
UnitDir(dx, dy) ==
    LET a == dx.n * dy.d
        c == dy.n * dx.d
        h == ISqrt(a * a + c * c)
    IN  IF h = 0 THEN [cos |-> R(1), sin |-> R(0)]
        ELSE [cos |-> Rat(a, h), sin |-> Rat(c, h)]

Half(i) == Rat(i, 2)
Center(node) == [x |-> RAdd(node.position.x, Half(node.size.w)),
                 y |-> RAdd(node.position.y, Half(node.size.h))]

(* ---------------------------------------------------------------------- *)
(* Flowchart: what the render produces for a connector and for a side box   *)
(* ---------------------------------------------------------------------- *)
\* data.nodes.find(n => n.id === id): the node, or undefined
Find(data, id) == IF id \in NodeIds(data) THEN FindNode(data, id) ELSE NoNode

\* a variant that tests the source of a connector only: reading the position of
\* a target that is undefined throws
ConnectorElement_ChecksSourceOnly(data, type, conn) ==
    IF Find(data, conn.from) = NoNode THEN NoData
    ELSE IF Find(data, conn.to) = NoNode THEN [threw |-> "TypeError"]
    ELSE [M |-> Center(Find(data, conn.from)), L |-> Center(Find(data, conn.to))]

\* the callback of data.connectors.map: null, or the path drawn (its M point, and
\* either the L point of a line or the two control points and the end of a curve)
ConnectorElement(data, type, conn) ==
    LET fromNode == Find(data, conn.from)
        toNode == Find(data, conn.to)
    IN  IF fromNode = NoNode \/ toNode = NoNode THEN NoData
        ELSE LET from == [x |-> RAdd(fromNode.position.x, Half(fromNode.size.w)),
                          y |-> RAdd(fromNode.position.y, R(fromNode.size.h))]
                 to == [x |-> RAdd(toNode.position.x, Half(toNode.size.w)),
                        y |-> toNode.position.y]
                 fromRight == RAdd(fromNode.position.x, R(fromNode.size.w))
                 toRight == RAdd(toNode.position.x, R(toNode.size.w))
             IN  IF type = MINDMAP
                 THEN [M |-> Center(fromNode), L |-> Center(toNode)]
                 ELSE IF RLt(RAdd(toNode.position.y, R(50)), fromNode.position.y)
                 THEN [M |-> [x |-> fromRight, y |-> Center(fromNode).y],
                       C1 |-> [x |-> RAdd(fromRight, R(100)), y |-> Center(fromNode).y],
                       C2 |-> [x |-> RAdd(toRight, R(100)), y |-> Center(toNode).y],
                       E |-> [x |-> toRight, y |-> Center(toNode).y]]
                 ELSE [M |-> from,
                       C1 |-> [x |-> from.x, y |-> RAdd(from.y, R(60))],
                       C2 |-> [x |-> to.x, y |-> RSub(to.y, R(60))],
                       E |-> to]

\* the callback of data.sideBoxes.map: null, or where the box is anchored
SideBoxElement(data, box) ==
    LET anchorNode == Find(data, box.attachToNode)
    IN  IF anchorNode = NoNode THEN NoData
        ELSE [ax |-> RAdd(anchorNode.position.x, R(anchorNode.size.w)),
              ay |-> Center(anchorNode).y,
              bx |-> RAdd(RAdd(anchorNode.position.x, R(anchorNode.size.w)), R(60))]

\* the position of the single generated sub-node (idx = 0 of 1)
SubnodePosition(data, node) ==
    LET isMindMap == data.diagramType = MINDMAP
        parentCenter == Center(node)
        incoming == {i \in DOMAIN data.connectors : data.connectors[i].to = node.id}
        hasIncoming == incoming # {}
        incomingConnector == data.connectors[CHOOSE i \in incoming :
                                                 \A j \in incoming : i <= j]
        dir == IF ~hasIncoming THEN [cos |-> R(1), sin |-> R(0)]
               ELSE IF incomingConnector.from \in NodeIds(data)
                    THEN LET pCenter == Center(FindNode(data, incomingConnector.from))
                         IN  UnitDir(RSub(parentCenter.x, pCenter.x),
                                     RSub(parentCenter.y, pCenter.y))
                    ELSE [cos |-> R(0), sin |-> R(1)]
    IN  IF isMindMap
        THEN [x |-> RSub(RAdd(parentCenter.x, RMul(dir.cos, R(Radius))), R(150)),
              y |-> RSub(RAdd(parentCenter.y, RMul(dir.sin, R(Radius))), R(40))]
        ELSE [x |-> node.position.x, y |-> RAdd(node.position.y, R(200))]

\* the Generate Sub-nodes button of the editor panel
handleGenerateSubnodes ==
    /\ CanClick
    /\ editingNode # NoNode /\ ~subReq.pending
    /\ IF flowchartData = NoData THEN UNCHANGED subReq
       ELSE subReq' = [pending |-> TRUE, editingNode |-> editingNode,
                       flowchartData |-> flowchartData, historyIndex |-> historyIndex]
    /\ UNCHANGED << flowchartData, history, historyIndex, diagramType, zoom, pan,
                    editingNode, isLoading, error, topic, memo, genReq, drag, touches, pinch,
                    pendingMeasure, clock, sess >>

\* generateSubnodes resolved with count sub-nodes; the handler continues with the
\* editingNode, flowchartData and pushToHistory of the render it was started in
SubnodesResolve(count) ==
    /\ Idle /\ subReq.pending
    /\ subReq' = NoReq
    /\ IF count = 0
       THEN UNCHANGED << DiagramVars, drag, sess, clock >>
       ELSE /\ CanCommit /\ clock < MaxAdded
            /\ LET id == NewSubnodeId(clock)
                   newNode == [id |-> id, text |-> "brief",
                               position |-> SubnodePosition(subReq.flowchartData,
                                                            subReq.editingNode),
                               size |-> [w |-> 300, h |-> 100]]
                   newData == [subReq.flowchartData EXCEPT
                                 !.nodes = Append(@, newNode),
                                 !.connectors = Append(@, Conn(subReq.editingNode.id, id))]
               IN  pushToHistory(subReq.historyIndex, newData) /\ KeepDrag(newData)
            /\ clock' = clock + 1
    /\ UNCHANGED << diagramType, zoom, pan, editingNode, isLoading, error, topic, memo, genReq,
                    touches, pinch >>

SubnodesReject ==
    /\ Idle /\ subReq.pending
    /\ subReq' = NoReq
    /\ UNCHANGED << flowchartData, history, historyIndex, diagramType, zoom, pan,
                    editingNode, isLoading, error, topic, memo, genReq, drag, touches, pinch,
                    pendingMeasure, clock, sess >>

\* the close button of the editor panel and the Escape key
CloseEditor ==
    /\ Idle /\ editingNode # NoNode
    /\ editingNode' = NoNode
    /\ UNCHANGED << flowchartData, history, historyIndex, diagramType, zoom, pan,
                    isLoading, error, topic, memo, genReq, subReq, drag, touches, pinch,
                    pendingMeasure, clock, sess >>

(* ---------------------------------------------------------------------- *)
(* nodeColorMap: the mind-map colours Flowchart computes from its props     *)
(* ---------------------------------------------------------------------- *)
MaxConnectors == 3
MaxSpokes == 12

MIND_MAP_PALETTE ==
    << "#ef4444", "#f97316", "#f59e0b", "#84cc16", "#10b981",
       "#06b6d4", "#3b82f6", "#8b5cf6", "#d946ef", "#f43f5e" >>

\* the props the computation is run on: diagrams of three nodes (the middle one at
\* the centre of the canvas) with every connector list up to MaxConnectors, one
\* connector repeated up to MaxSpokes times, a diagram of five nodes, and a
\* diagram without nodes
ColorProps ==
    LET ColorData(nodes, connectors) ==
            [canvas |-> [width |-> 1200, height |-> 1000], nodes |-> nodes,
             connectors |-> connectors,
             sideBoxes |-> << [attachToNode |-> "x"], [attachToNode |-> "a"] >>,
             supportingPanel |-> NoData, diagramType |-> MINDMAP]
        ColorNodes == << Node("a", "brief", 100, 457, 300, 86),
                         Node("r", "brief", 450, 457, 300, 86),
                         Node("b", "brief", 800, 457, 300, 86) >>
        ConnectorInputs ==
            {Conn(f, t) : f \in {"r", "a", "b"}, t \in {"r", "a", "b"}}
                \cup {Conn("a", "x"), Conn("x", "r")}
        FiveNodes == << Node("A", "brief", 100, 100, 300, 86),
                        Node("B", "brief", 800, 100, 300, 86),
                        Node("R", "brief", 450, 457, 300, 86),
                        Node("C", "brief", 100, 800, 300, 86),
                        Node("A1", "brief", 100, 300, 300, 86) >>
        FiveConnectors ==
            << Conn("R", "A"), Conn("R", "B"), Conn("R", "C"), Conn("A", "A1") >>
    IN  {ColorData(ColorNodes, cs) :
            cs \in UNION {[1..n -> ConnectorInputs] : n \in 0..MaxConnectors}}
        \cup {ColorData(ColorNodes, [i \in 1..n |-> Conn("r", "a")]) : n \in 1..MaxSpokes}
        \cup {ColorData(FiveNodes, FiveConnectors), ColorData(<< >>, << >>)}

\* the square of Math.hypot(centre of n - centre of the canvas): the order of the
\* distances is the order of their squares
Dist2(data, n) ==
    LET cx == Rat(data.canvas.width, 2)
        cy == Rat(data.canvas.height, 2)
        ex == RSub(RAdd(n.position.x, Half(n.size.w)), cx)
        ey == RSub(RAdd(n.position.y, Half(n.size.h)), cy)
    IN  RAdd(RMul(ex, ex), RMul(ey, ey))

\* rootNode after the forEach over nodes i..: best is rootNode so far, and hasMin
\* says whether minDist is still Infinity
RECURSIVE ClosestFrom(_, _, _, _)
ClosestFrom(data, i, best, hasMin) ==
    IF i > Len(data.nodes) THEN best
    ELSE LET n == data.nodes[i]
         IN  IF ~hasMin \/ RLt(Dist2(data, n), Dist2(data, best))
             THEN ClosestFrom(data, i + 1, n, TRUE)
             ELSE ClosestFrom(data, i + 1, best, hasMin)

\* data.nodes[0] when there is no node is undefined
RootNode(data) ==
    IF data.nodes = << >> THEN NoNode ELSE ClosestFrom(data, 1, data.nodes[1], FALSE)

\* level1Nodes (as ids) after the forEach over connectors i..
RECURSIVE Level1From(_, _, _)
Level1From(data, rootId, i) ==
    IF i > Len(data.connectors) THEN << >>
    ELSE LET c == data.connectors[i]
             found == IF c.from = rootId
                      THEN IF c.to \in NodeIds(data) THEN << c.to >> ELSE << >>
                      ELSE IF c.to = rootId
                           THEN IF c.from \in NodeIds(data) THEN << c.from >> ELSE << >>
                           ELSE << >>
         IN  found \o Level1From(data, rootId, i + 1)

\* colors[k] = v
Put(f, k, v) == [x \in DOMAIN f \cup {k} |-> IF x = k THEN v ELSE f[x]]

\* colors after level1Nodes.forEach from position idx + 1 on
RECURSIVE AssignLevel1(_, _, _)
AssignLevel1(level1, idx, colors) ==
    IF idx >= Len(level1) THEN colors
    ELSE AssignLevel1(level1, idx + 1,
             Put(colors, level1[idx + 1],
                 MIND_MAP_PALETTE[(idx % Len(MIND_MAP_PALETTE)) + 1]))

\* a variant that follows a connector only from its from end to its to end
RECURSIVE VisitConnectors_ForwardOnly(_, _, _, _, _)
VisitConnectors_ForwardOnly(data, parentId, parentColor, st, i) ==
    IF i > Len(data.connectors) THEN st
    ELSE LET c == data.connectors[i]
             childId == IF c.from = parentId /\ c.to \notin st.processed
                        THEN << c.to >> ELSE << >>
             next == IF childId # << >> /\ childId[1] \in NodeIds(data)
                     THEN [colors |-> Put(st.colors, childId[1], parentColor),
                           processed |-> st.processed \cup {childId[1]},
                           queue |-> Append(st.queue, childId[1])]
                     ELSE st
         IN  VisitConnectors_ForwardOnly(data, parentId, parentColor, next, i + 1)

\* the forEach over connectors i.. of one pass of the while loop; st holds colors,
\* processed and queue
RECURSIVE VisitConnectors(_, _, _, _, _)
VisitConnectors(data, parentId, parentColor, st, i) ==
    IF i > Len(data.connectors) THEN st
    ELSE LET c == data.connectors[i]
             first == IF c.from = parentId /\ c.to \notin st.processed
                      THEN << c.to >> ELSE << >>
             childId == IF c.to = parentId /\ c.from \notin st.processed
                        THEN << c.from >> ELSE first
             next == IF childId # << >> /\ childId[1] \in NodeIds(data)
                     THEN [colors |-> Put(st.colors, childId[1], parentColor),
                           processed |-> st.processed \cup {childId[1]},
                           queue |-> Append(st.queue, childId[1])]
                     ELSE st
         IN  VisitConnectors(data, parentId, parentColor, next, i + 1)

MemoFrame ==
    UNCHANGED << flowchartData, history, historyIndex, diagramType, zoom, pan, editingNode,
                 isLoading, error, topic, genReq, subReq, drag, touches, pinch,
                 pendingMeasure, clock, sess >>

\* Flowchart renders with props data and diagramType: the useMemo callback up to
\* the while loop
ColorStart(data, type) ==
    /\ memo.pc = "props"
    /\ memo' =
         IF type # MINDMAP
         THEN [NoMemo EXCEPT !.pc = "done", !.data = data, !.type = type]
         ELSE IF data.nodes = << >>
         THEN [NoMemo EXCEPT !.pc = "threw", !.data = data, !.type = type]
         ELSE LET rootNode == RootNode(data)
                  level1 == Level1From(data, rootNode.id, 1)
              IN  [pc |-> "while", data |-> data, type |-> type, root |-> rootNode,
                   colors |-> AssignLevel1(level1, 0, NoColors),
                   processed |-> {rootNode.id} \cup Range(level1),
                   queue |-> level1]
    /\ MemoFrame

\* a variant that reads the head of the queue without removing it
ColorVisit_NoShift ==
    /\ memo.pc = "while" /\ memo.queue # << >>
    /\ LET parentId == Head(memo.queue)
           st == VisitConnectors(memo.data, parentId, memo.colors[parentId],
                                 [colors |-> memo.colors, processed |-> memo.processed,
                                  queue |-> memo.queue], 1)
       IN  memo' = [memo EXCEPT !.colors = st.colors, !.processed = st.processed,
                                !.queue = st.queue]
    /\ MemoFrame

\* a variant that gives the children the last colour of the palette
ColorVisit_LastPalette ==
    /\ memo.pc = "while" /\ memo.queue # << >>
    /\ LET parentId == Head(memo.queue)
           st == VisitConnectors(memo.data, parentId,
                                 MIND_MAP_PALETTE[Len(MIND_MAP_PALETTE)],
                                 [colors |-> memo.colors, processed |-> memo.processed,
                                  queue |-> Tail(memo.queue)], 1)
       IN  memo' = [memo EXCEPT !.colors = st.colors, !.processed = st.processed,
                                !.queue = st.queue]
    /\ MemoFrame

\* one pass of the while loop
ColorVisit ==
    /\ memo.pc = "while" /\ memo.queue # << >>
    /\ LET parentId == Head(memo.queue)
           st == VisitConnectors(memo.data, parentId, memo.colors[parentId],
                                 [colors |-> memo.colors, processed |-> memo.processed,
                                  queue |-> Tail(memo.queue)], 1)
       IN  memo' = [memo EXCEPT !.colors = st.colors, !.processed = st.processed,
                                !.queue = st.queue]
    /\ MemoFrame

\* the while condition fails: return colors
ColorDone ==
    /\ memo.pc = "while" /\ memo.queue = << >>
    /\ memo' = [memo EXCEPT !.pc = "done"]
    /\ MemoFrame

(* ---------------------------------------------------------------------- *)
(* Controls: the diagram type select                                        *)
(* ---------------------------------------------------------------------- *)
setDiagramType(type) ==
    /\ CanClick
    /\ diagramType' = type
    /\ pendingMeasure' = Triggered(flowchartData, diagramType, flowchartData, type)
    /\ UNCHANGED << flowchartData, history, historyIndex, zoom, pan, editingNode, isLoading,
                    error, topic, memo, genReq, subReq, drag, touches, pinch, clock, sess >>

(* ---------------------------------------------------------------------- *)
(* The zoom buttons                                                         *)
(* ---------------------------------------------------------------------- *)
ZoomFrame ==
    UNCHANGED << flowchartData, history, historyIndex, diagramType, pan, editingNode,
                 isLoading, error, topic, memo, genReq, subReq, drag, touches, pinch,
                 pendingMeasure, clock, sess >>

\* the buttons are clicked with no finger on the screen
zoomIn == CanClick /\ NTouches = 0 /\ zoom' = RMin(RAdd(zoom, Rat(1, 10)), R(3)) /\ ZoomFrame
zoomReset == CanClick /\ NTouches = 0 /\ zoom' = R(1) /\ ZoomFrame
zoomOut == CanClick /\ NTouches = 0 /\ zoom' = RMax(RSub(zoom, Rat(1, 10)), Rat(2, 10)) /\ ZoomFrame

\* finger distances of the pinches that follow the buttons: a twentieth and twenty
\* times the distance at the start
ZoomPinchDists == {5, 2000}

(* ---------------------------------------------------------------------- *)
(* handleDownloadSVG: the SVG file written for a diagram                    *)
(* ---------------------------------------------------------------------- *)
\* the svg element rendered by Flowchart for data under the zoom z and the canvas
\* position cp, cloned, with width, height and viewBox set from the canvas
handleDownloadSVG(data, type, z, cp) ==
    LET svg == [viewBox |-> << RSub(R(0), cp.x), RSub(R(0), cp.y),
                               RDiv(R(InnerWidth), z), RDiv(R(InnerHeight), z) >>,
                connectors |-> [i \in DOMAIN data.connectors |->
                                   ConnectorElement(data, type, data.connectors[i])],
                nodes |-> data.nodes,
                sideBoxes |-> [i \in DOMAIN data.sideBoxes |->
                                  SideBoxElement(data, data.sideBoxes[i])],
                resizeHandle |-> [cx |-> data.canvas.width, cy |-> data.canvas.height,
                                  r |-> RDiv(R(10), z)]]
        width == data.canvas.width
        height == data.canvas.height
    IN  [svg EXCEPT !.viewBox = << R(0), R(0), R(width), R(height) >>]

(* ---------------------------------------------------------------------- *)
(* Specifications                                                           *)
(* ---------------------------------------------------------------------- *)
\* the editor: clicks and keyboard undo / redo
Next ==
    \/ AutoResizeEffect
    \/ handleUndo
    \/ handleRedo
    \/ \E id \in EditableIds : DoubleClick(id)
    \/ CloseEditor
    \/ \E t \in Texts : handleNodeEditSave(t)
    \/ handleDeleteNode
    \/ handleAddNode
    \/ \E d \in {"width", "height"}, v \in CanvasInputs : onCanvasSizeChange(d, v)

Spec == Init /\ [][Next]_vars

\* requests in flight while the user goes on editing
NextAsync ==
    \/ AutoResizeEffect
    \/ handleUndo
    \/ handleRedo
    \/ DoubleClick("n1")
    \/ handleAddNode
    \/ handleGenerate
    \/ GenerateResolve
    \/ GenerateReject
    \/ handleGenerateSubnodes
    \/ \E n \in SubnodeCounts : SubnodesResolve(n)
    \/ SubnodesReject

SpecAsync == Init /\ [][NextAsync]_vars

\* drag sessions by mouse (on every draggable) and by touch (on a node and on the
\* canvas), with pinches
NextDrag ==
    \/ AutoResizeEffect
    \/ \E who \in Whos, c \in StartPts, b \in {0, 2} : MouseDown(who, c, b)
    \/ \E c \in PointerPts : MouseMove(c)
    \/ MouseUp
    \/ \E w \in {"in", "out"}, who \in TouchWhos, c \in StartPts, d \in StartDists :
          TouchStart(w, who, c, d)
    \/ \E w \in {"in", "out"}, c \in PointerPts, d \in PinchDists : TouchMove(w, c, d)
    \/ \E w \in {"in", "out"} : TouchEnd(w)

SpecDrag == Init /\ [][NextDrag]_vars

\* node sessions by mouse in a diagram that a generation of either type put in place
NextRoot ==
    \/ AutoResizeEffect
    \/ \E t \in {FLOWCHART, MINDMAP} : setDiagramType(t)
    \/ handleGenerate
    \/ GenerateResolve
    \/ handleAddNode
    \/ \E id \in RootDragIds, c \in StartPts :
          MouseDown([kind |-> "node", id |-> id], c, 0)
    \/ \E c \in PointerPts : MouseMove(c)
    \/ MouseUp

SpecRoot == Init /\ [][NextRoot]_vars

\* the zoom buttons, pinches on the canvas and generations
NextZoom ==
    \/ AutoResizeEffect
    \/ zoomIn
    \/ zoomReset
    \/ zoomOut
    \/ handleGenerate
    \/ GenerateResolve
    \/ \E c \in StartPts, d \in StartDists : TouchStart("in", [kind |-> "canvas"], c, d)
    \/ \E c \in StartPts, d \in ZoomPinchDists : TouchMove("in", c, d)
    \/ TouchEnd("in")

SpecZoom == Init /\ [][NextZoom]_vars

\* the viewport (the reset button, canvas sessions by mouse and touch, pinches)
\* next to commits, undo and redo
NextView ==
    \/ AutoResizeEffect
    \/ handleUndo
    \/ handleRedo
    \/ onCanvasSizeChange("width", 1600)
    \/ zoomReset
    \/ \E c \in StartPts : MouseDown([kind |-> "canvas"], c, 0)
    \/ \E c \in PointerPts : MouseMove(c)
    \/ MouseUp
    \/ \E c \in StartPts, d \in StartDists : TouchStart("in", [kind |-> "canvas"], c, d)
    \/ \E c \in PointerPts, d \in ZoomPinchDists : TouchMove("in", c, d)
    \/ TouchEnd("in")

SpecView == Init /\ [][NextView]_vars

\* generation requests that succeed or fail, with commits, undo and a moved viewport
NextFail ==
    \/ AutoResizeEffect
    \/ onCanvasSizeChange("width", 1600)
    \/ handleUndo
    \/ zoomOut
    \/ \E c \in StartPts : MouseDown([kind |-> "canvas"], c, 0)
    \/ \E c \in PointerPts : MouseMove(c)
    \/ MouseUp
    \/ handleGenerate
    \/ GenerateResolve
    \/ GenerateReject

SpecFail == Init /\ [][NextFail]_vars

\* the same steps with the scheduling of the browser: the layout effect runs after every
\* render, and the promise of a request settles, its callback running whenever the
\* event loop is free of effects
SpecSettle ==
    /\ Init /\ [][NextFail]_vars
    /\ WF_vars(AutoResizeEffect)
    /\ SF_vars(GenerateResolve \/ GenerateReject)

\* the canvas resized by its handle under a zoom of nine tenths and less, and by
\* the numeric inputs
NextCanvas ==
    \/ AutoResizeEffect
    \/ zoomOut
    \/ \E c \in StartPts : MouseDown([kind |-> "resize"], c, 0)
    \/ \E c \in {[x |-> 40, y |-> 20], [x |-> -2000, y |-> 20]} : MouseMove(c)
    \/ MouseUp
    \/ \E d \in {"width", "height"}, v \in CanvasInputs : onCanvasSizeChange(d, v)

SpecCanvas == Init /\ [][NextCanvas]_vars

\* documents rendered from the JSON editor, next to the editor's other commits
NextRender ==
    \/ AutoResizeEffect
    \/ \E text \in JsonTexts : handleRender(text)
    \/ handleUndo
    \/ handleRedo
    \/ handleAddNode
    \/ \E id \in EditableIds : DoubleClick(id)
    \/ \E t \in Texts : handleNodeEditSave(t)

SpecRender == Init /\ [][NextRender]_vars

\* the colour computation on every props of ColorProps; the loop runs on once
\* started (the callback is synchronous)
NextColor ==
    \/ \E d \in ColorProps, t \in {FLOWCHART, MINDMAP} : ColorStart(d, t)
    \/ ColorVisit
    \/ ColorDone

SpecColor == Init /\ [][NextColor]_vars /\ WF_vars(ColorVisit) /\ WF_vars(ColorDone)

(* ---------------------------------------------------------------------- *)
(* Properties                                                               *)
(* ---------------------------------------------------------------------- *)
\* C1: after every commit, undo or redo (every step that changes the history or
\* the index) the diagram shown is exactly history[historyIndex]
C1_ShownIsCurrentEntry ==
    [][(history' # history \/ historyIndex' # historyIndex)
          => flowchartData' = HistAt(history', historyIndex')]_vars

\* C2: a commit in a state with history h and index i yields h[0..i] followed by
\* the committed diagram, and the index i + 1, which is the last position
C2_CommitTruncatesAndAppends ==
    [][(history' # history /\ historyIndex' = historyIndex + 1)
          => /\ history' = Append(Slice(history, historyIndex + 1), flowchartData')
             /\ historyIndex' = Len(history') - 1]_vars

\* C3: 0 <= historyIndex < history.length in every reachable state, also when the
\* result of a sub-node generation is committed after other edits
C3_IndexInRange == 0 <= historyIndex /\ historyIndex < Len(history)

\* C4: in every state without an active drag session (and without a measurement
\* pass still to run) the diagram shown equals history[historyIndex]
C4_ShownIsCurrentEntryWhenNoDrag ==
    (~drag.isDragging /\ Idle) => flowchartData = HistAt(history, historyIndex)

\* C5: an enabled undo (redo) leaves the snapshot sequence unchanged, moves the
\* index by exactly -1 (+1) and shows history[new index]
C5_UndoRedoMoveOnlyIndex ==
    [][ /\ (handleUndo /\ historyIndex > 0)
              => /\ history' = history
                 /\ historyIndex' = historyIndex - 1
                 /\ flowchartData' = HistAt(history, historyIndex - 1)
        /\ (handleRedo /\ historyIndex < Len(history) - 1)
              => /\ history' = history
                 /\ historyIndex' = historyIndex + 1
                 /\ flowchartData' = HistAt(history, historyIndex + 1) ]_vars

\* C5 witness: an undo has acted: the index is inside the history, below its last
\* entry, and the entry at the index is shown
C5_UndoActed ==
    /\ historyIndex > 0 /\ historyIndex < Len(history) - 1
    /\ flowchartData = HistAt(history, historyIndex)

\* C6: undo at index 0 and redo at the last entry change neither the history, nor
\* the index, nor the diagram shown
C6_UndoRedoAtEndsAreNoOps ==
    [][ /\ (handleUndo /\ historyIndex = 0)
              => UNCHANGED << history, historyIndex, flowchartData >>
        /\ (handleRedo /\ historyIndex >= Len(history) - 1)
              => UNCHANGED << history, historyIndex, flowchartData >> ]_vars

\* C6 witness: undos have led back to index 0 of a history with redo entries, where
\* a further undo can be pressed
C6_AtFirstEntry == Idle /\ historyIndex = 0 /\ Len(history) = MaxHistory

C8_LiveUpdatesLeaveHistory ==
    [][ /\ ( \/ \E c \in PointerPts : MouseMove(c)
             \/ \E w \in {"in", "out"}, c \in PointerPts, d \in PinchDists :
                   TouchMove(w, c, d) )
              => UNCHANGED << history, historyIndex >>
        /\ (history' # history)
              => /\ drag.isDragging /\ ~drag'.isDragging
                 /\ sess'.ended = "release"
                 /\ sess'.commits = sess.commits + 1
                 /\ history' = Append(Slice(history, historyIndex + 1), flowchartData') ]_vars

\* C8 witness: a node is being dragged, a live update moved it, and the diagram
\* shown differs from the history entry at the index
C8_LiveUpdateActed ==
    /\ drag.isDragging /\ drag.who.kind = "node"
    /\ sess.expected # drag.elStart
    /\ FindNode(flowchartData, drag.who.id).position = sess.expected
    /\ C3_IndexInRange
    /\ flowchartData # HistAt(history, historyIndex)
    /\ Len(history) = 1

\* C9: a session that ended by release invoked onDragEnd exactly once, with the
\* position of its last live update (its start position if there was none), and
\* nothing of that session happens afterwards
C9_ReleaseCommitsOnceWithLastPosition ==
    /\ [](sess.ended = "release" => sess.commits = 1 /\ sess.commitArg = sess.expected)
    /\ [][(sess.ended = "release" /\ sess'.n = sess.n) => sess' = sess]_vars

\* C9 witness: a node drag with a live update to (180, 340) ended by release and
\* the committed entry holds the node at that position
C9_ReleasedAfterLiveUpdate ==
    /\ sess.ended = "release" /\ sess.commits = 1
    /\ sess.commitArg = Pos(180, 340)
    /\ Len(history) = 2 /\ historyIndex = 1
    /\ FindNode(history[2], "n1").position = Pos(180, 340)

\* C10: once a touch move with more than one touch point happened during a drag
\* session, the session is not active any more and onDragEnd is never invoked
\* for it
C10_SecondTouchCancels ==
    sess.multi => (~drag.isDragging /\ sess.commits = 0)

\* C11: the step that cancels a node drag session (a touch move with more than one
\* touch point) leaves the node at the position it had before the session
\* started, and adds no history entry
C11_CancelRestoresDiagram ==
    [][(drag.isDragging /\ drag.who.kind = "node"
        /\ sess.ended = "none" /\ sess'.ended = "cancel")
          => /\ FindNode(flowchartData', drag.who.id).position = drag.elStart
             /\ UNCHANGED << history, historyIndex >>]_vars

\* C12: the window listeners of a draggable are registered exactly while its
\* session is active: none before the first pointer-down, all four during a
\* session, none after a release, a cancellation or an unmount
C12_ListenersIffDragging ==
    drag.listeners = (IF drag.isDragging THEN WindowListeners ELSE {})

\* C12 witness: a session was cancelled after live updates and no listener is left
C12_CancelledAndDetached ==
    /\ sess.ended = "cancel" /\ ~drag.isDragging
    /\ drag.listeners = {}
    /\ sess.expected # NoPos

\* C13: after deleting node X the committed diagram holds no node X, no connector
\* from or to X, no side-box attached to X and no panel item connected to X;
\* every other node, connector and side-box is kept, in order
C13_DeletionClosure ==
    [][handleDeleteNode =>
          LET X == editingNode.id
              d == HistAt(history', historyIndex')
          IN  /\ d = flowchartData'
              /\ X \notin NodeIds(d)
              /\ \A c \in Range(d.connectors) : c.from # X /\ c.to # X
              /\ \A b \in Range(d.sideBoxes) : b.attachToNode # X
              /\ d.supportingPanel # NoData =>
                    \A it \in Range(d.supportingPanel.items) : it.connectsToNode # X
              /\ d.nodes = SelectSeq(flowchartData.nodes, LAMBDA n : n.id # X)
              /\ d.connectors = SelectSeq(flowchartData.connectors,
                                          LAMBDA c : c.from # X /\ c.to # X)
              /\ d.sideBoxes = SelectSeq(flowchartData.sideBoxes,
                                         LAMBDA b : b.attachToNode # X)]_vars

\* C14: in mind-map mode, when the colour computation has returned, a node other
\* than the root has a colour exactly when it can be reached from the root along
\* connectors taken in either direction whose two ends are both nodes of the
\* diagram; no other key is in the map.
C14_ColouredIffReachable ==
    (memo.pc = "done" /\ memo.type = MINDMAP) =>
        LET data == memo.data
            Step(S) == S \cup {n \in NodeIds(data) :
                                  \E c \in Range(data.connectors) :
                                      \/ c.from \in S /\ c.to = n
                                      \/ c.to \in S /\ c.from = n}
            Reach == Step(Step(Step(Step({memo.root.id}))))
        IN  /\ Step(Reach) = Reach
            /\ \A n \in NodeIds(data) \ {memo.root.id} :
                   n \in DOMAIN memo.colors <=> n \in Reach
            /\ DOMAIN memo.colors \subseteq NodeIds(data)

\* a returned map over a cycle a-b away from the root, b coloured through a
C14_CycleColoured ==
    /\ memo.pc = "done" /\ memo.type = MINDMAP
    /\ memo.data.connectors = << Conn("r", "a"), Conn("a", "b"), Conn("b", "a") >>
    /\ "b" \in DOMAIN memo.colors
    /\ memo.colors["b"] = memo.colors["a"]

\* C15: in mind-map mode the colour map never has an entry for the root, whatever
\* the connectors are.
C15_RootHasNoColour ==
    (memo.type = MINDMAP /\ memo.root # NoNode) => memo.root.id \notin DOMAIN memo.colors

\* C16: once the colour computation has started it returns: the queue of the
\* while loop becomes empty and the loop is left.
C16_PropagationTerminates ==
    (memo.pc = "while") ~> (memo.pc = "done")

\* the loop has been left after passes that coloured a node through a cycle
C16_ReturnedOverCycle ==
    /\ memo.pc = "done" /\ memo.type = MINDMAP
    /\ memo.data.connectors = << Conn("a", "r"), Conn("b", "a"), Conn("a", "b") >>
    /\ memo.processed = {"r", "a", "b"}
    /\ memo.queue = << >>

\* C17: the level-1 nodes are the nodes joined to the root by a connector in
\* either direction, in the order in which the connector array first reaches
\* them, and the k-th of them (k from 0) has the colour palette[k mod 10].
C17_Level1PaletteByIndex ==
    (memo.type = MINDMAP /\ memo.root # NoNode) =>
        LET data == memo.data
            rootId == memo.root.id
            Other(c) == IF c.from = rootId THEN c.to ELSE c.from
            Joined(i) == /\ (data.connectors[i].from = rootId \/ data.connectors[i].to = rootId)
                         /\ Other(data.connectors[i]) \in NodeIds(data) \ {rootId}
            First(i) == /\ Joined(i)
                        /\ \A j \in 1..(i - 1) :
                              Joined(j) => Other(data.connectors[j]) # Other(data.connectors[i])
            \* k (from 0) of the node first reached by connector i
            K(i) == Cardinality({j \in 1..(i - 1) : First(j)})
        IN  \A i \in DOMAIN data.connectors :
                First(i) =>
                    LET id == Other(data.connectors[i])
                    IN  /\ id \in DOMAIN memo.colors
                        /\ memo.colors[id] = MIND_MAP_PALETTE[(K(i) % Len(MIND_MAP_PALETTE)) + 1]

\* C18: in mind-map mode, while a node without incoming connector is dragged, after
\* every live update and after the commit that ends the session each node is away
\* from its position at the start of the session (or in the diagram a generation
\* put in place during the session) by the displacement of the dragged node, and
\* the commit leaves the dragged node where the last live update put it.
C18_RootDragIsRigid ==
    [][(/\ drag.isDragging /\ drag.who.kind = "node"
        /\ sess.ended = "none" /\ sess'.ended \in {"none", "release"}
        /\ sess'.shown \in {sess.shown, NoData}
        /\ flowchartData.diagramType = MINDMAP \/ diagramType = MINDMAP
        /\ ~(\E c \in Range(flowchartData.connectors) : c.to = drag.who.id))
          => LET base == sess.shown
                 now == flowchartData'
                 rootId == drag.who.id
                 dx == RSub(FindNode(now, rootId).position.x, FindNode(base, rootId).position.x)
                 dy == RSub(FindNode(now, rootId).position.y, FindNode(base, rootId).position.y)
             IN  /\ Len(now.nodes) = Len(base.nodes)
                 /\ \A i \in DOMAIN base.nodes :
                       /\ now.nodes[i].id = base.nodes[i].id
                       /\ now.nodes[i].position =
                              [x |-> RAdd(base.nodes[i].position.x, dx),
                               y |-> RAdd(base.nodes[i].position.y, dy)]
                 /\ sess'.ended = "release" =>
                       /\ FindNode(now, rootId).position = drag.position
                       /\ HistAt(history', historyIndex') = now]_vars

\* a session on n1 of a mind map has ended by a release away from where it started,
\* and n2 has moved with it
C18_RootReleasedAway ==
    /\ sess.ended = "release" /\ sess.n = 1
    /\ flowchartData.diagramType = MINDMAP
    /\ flowchartData = HistAt(history, historyIndex)
    /\ Len(history) = 2
    /\ FindNode(flowchartData, "n1").position = sess.commitArg
    /\ sess.commitArg # FindNode(history[1], "n1").position
    /\ FindNode(flowchartData, "n2").position # FindNode(history[1], "n2").position

\* C19: zoom is at least 0.2 and at most 3 in every reachable state, whatever the
\* pinches, the presses of the three zoom buttons and the generations are.
C19_ZoomInBounds ==
    RLe(Rat(2, 10), zoom) /\ RLe(zoom, R(3))

\* a pinch that started between 1.5 and 3 has been stopped at 3
C19_PinchStoppedAtMax ==
    /\ NTouches = 2 /\ zoom = R(3)
    /\ RLt(Rat(15, 10), pinch.startZoom) /\ RLt(pinch.startZoom, R(3))

\* C20: every pinch update sets pan to startPan + focal * (1/newZoom - 1/startZoom)
\* with newZoom between 0.2 and 3, and the point of the model that the viewBox
\* shows under the focal point of the screen, focal/zoom minus the pan of the
\* viewBox, is the same after the update as before it.
C20_PinchKeepsFocalPoint ==
    [][(NTouches = 2 /\ touches' = touches /\ << zoom', pan' >> # << zoom, pan >>)
          => LET focal == pinch.center
                 k == RSub(RDiv(R(1), zoom'), RDiv(R(1), pinch.startZoom))
                 Under(z, p) == [x |-> RSub(RDiv(R(focal.x), z), p.x),
                                 y |-> RSub(RDiv(R(focal.y), z), p.y)]
             IN  /\ RLe(MinZoom, zoom') /\ RLe(zoom', MaxZoom)
                 /\ pan' = [x |-> RAdd(pinch.startPan.x, RMul(R(focal.x), k)),
                            y |-> RAdd(pinch.startPan.y, RMul(R(focal.y), k))]
                 /\ Under(zoom', canvasPan') = Under(zoom, canvasPan)]_vars

C22_AutoSizeFloor ==
    [][pendingMeasure # {} /\ pendingMeasure' = {}
          => \A id \in pendingMeasure \cap NodeIds(flowchartData') :
                FindNode(flowchartData', id).size.h >= MinNodeHeight]_vars

\* C23: the step that starts a generation request and the step in which the request
\* fails leave the diagram shown, the history, the index, zoom and pan as they are,
\* and the failure sets an error message; a request ends in no other way than by
\* applying the generated diagram.
C23_FailedGenerationChangesNothing ==
    [][/\ (~genReq.pending /\ genReq'.pending)
            => UNCHANGED << flowchartData, history, historyIndex, zoom, pan >>
       /\ (genReq.pending /\ ~genReq'.pending)
            => \/ /\ error' # "null"
                  /\ UNCHANGED << flowchartData, history, historyIndex, zoom, pan >>
               \/ /\ error' = "null"
                  /\ flowchartData' = Generated(genReq.diagramType)
                  /\ history' = << flowchartData' >>]_vars

\* a request has failed with two entries in the history and the viewport moved
C23_FailedWithEditsAndMovedViewport ==
    /\ error = "Failed to generate flowchart"
    /\ ~genReq.pending /\ ~isLoading
    /\ Len(history) = 2 /\ historyIndex = 1
    /\ zoom # R(1) /\ pan # Pos(0, 0)

\* C24: handleRender commits only a diagram document, so that what is not one never
\* becomes the diagram shown or a history entry: the diagram shown and every history
\* entry is a document with a canvas, nodes and connectors.
C24_RenderCommitsOnlyDocuments ==
    LET IsDocument(d) == {"canvas", "nodes", "connectors"} \subseteq DOMAIN d
    IN  /\ IsDocument(flowchartData)
        /\ \A i \in DOMAIN history : IsDocument(history[i])

\* C25: a connector or a side box that names a node the diagram does not have is
\* left out of the render (its element is null) and does not make the colour
\* propagation throw or colour a node that does not exist, while every connector and
\* side box whose nodes exist gets its element, and a finished propagation has
\* crossed every connector whose two ends exist.
C25_DanglingReferencesOmitted ==
    memo.pc # "props" =>
        LET data == memo.data
            ids == NodeIds(data)
            Reached == DOMAIN memo.colors \cup {memo.root.id}
        IN  /\ memo.pc = "threw" => data.nodes = << >>
            /\ \A i \in DOMAIN data.connectors :
                  LET c == data.connectors[i]
                      el == ConnectorElement(data, memo.type, c)
                  IN  IF c.from \in ids /\ c.to \in ids
                      THEN "M" \in DOMAIN el
                      ELSE el = NoData
            /\ \A i \in DOMAIN data.sideBoxes :
                  LET el == SideBoxElement(data, data.sideBoxes[i])
                  IN  IF data.sideBoxes[i].attachToNode \in ids
                      THEN "ax" \in DOMAIN el
                      ELSE el = NoData
            /\ DOMAIN memo.colors \subseteq ids
            /\ (memo.pc = "done" /\ memo.type = MINDMAP) =>
                  \A c \in Range(data.connectors) :
                      (c.from \in ids /\ c.to \in ids) =>
                          (c.from \in Reached <=> c.to \in Reached)

\* the propagation has returned for a diagram with a connector to a missing node, a
\* connector from a missing node, a side box on a missing node, and a node coloured
\* across a connector that follows the broken ones
C25_ColouredPastBrokenConnectors ==
    /\ memo.pc = "done" /\ memo.type = MINDMAP
    /\ memo.data.connectors = << Conn("x", "r"), Conn("a", "x"), Conn("r", "a") >>
    /\ SideBoxElement(memo.data, memo.data.sideBoxes[1]) = NoData
    /\ "a" \in DOMAIN memo.colors

\* C26: after every resize of the canvas (a live or a final update from the resize
\* handle, a value typed into the width or height input) the width and the height
\* of the canvas shown, and of every history entry, are integers of at least 100.
C26_CanvasAtLeast100 ==
    LET Sized(d) == d # NoData =>
                       /\ d.canvas.width \in Int /\ d.canvas.width >= 100
                       /\ d.canvas.height \in Int /\ d.canvas.height >= 100
    IN  Sized(flowchartData) /\ \A i \in DOMAIN history : Sized(history[i])

\* the handle was released left of the canvas origin at a height that is not a
\* whole number: the width stopped at 100 and the height was rounded down
C26_ReleasedLeftOfOriginOffGrid ==
    /\ sess.ended = "release" /\ sess.commitArg # NoPos
    /\ RLt(sess.commitArg.x, R(100))
    /\ sess.commitArg.y.d # 1
    /\ flowchartData.canvas = [width |-> 100, height |-> RFloor(sess.commitArg.y)]
    /\ history[Len(history)] = flowchartData

\* C27: the SVG file written for the diagram shown does not depend on the viewport:
\* it is the file written for the same diagram at zoom 1 and pan (0,0), and its
\* viewBox is 0 0 width height of the canvas.
C27_ExportIgnoresViewport ==
    flowchartData # NoData =>
        LET file == handleDownloadSVG(flowchartData, diagramType, zoom, canvasPan)
        IN  /\ file = handleDownloadSVG(flowchartData, diagramType, R(1), Pos(0, 0))
            /\ file.viewBox = << R(0), R(0), R(flowchartData.canvas.width),
                                 R(flowchartData.canvas.height) >>

\* C28: in mind-map mode a live or final update of a session on a node that was not
\* the root when the session started (the root is the node closest to the centre of
\* the canvas) changes the position of that node only, whether or not a connector
\* ends at it.
C28_OnlyRootDragMovesOthers ==
    [][(/\ drag.isDragging /\ drag.who.kind = "node"
        /\ sess.ended = "none" /\ sess'.ended \in {"none", "release"}
        /\ sess'.shown \in {sess.shown, NoData}
        /\ diagramType = MINDMAP /\ flowchartData.diagramType = MINDMAP
        /\ drag.who.id \in NodeIds(flowchartData) \cap NodeIds(sess.shown)
        /\ drag.who.id # RootNode(sess.shown).id)
          => /\ Len(flowchartData'.nodes) = Len(flowchartData.nodes)
             /\ \A i \in DOMAIN flowchartData.nodes :
                   flowchartData.nodes[i].id # drag.who.id
                       => flowchartData'.nodes[i].position
                              = flowchartData.nodes[i].position]_vars

\* C30: during colour propagation a node is given a colour at most once: the level-1
\* assignment, which writes one colour per entry of level1Nodes, has no node twice
\* in that list, and a pass of the while loop leaves the colour of every node
\* that is marked processed as it is.
C30_ColouredAtMostOnce ==
    [][/\ (memo.pc = "props" /\ memo'.pc = "while")
            => LET level1Nodes == Level1From(memo'.data, memo'.root.id, 1)
               IN  \A i, j \in DOMAIN level1Nodes :
                      level1Nodes[i] = level1Nodes[j] => i = j
       /\ (memo.pc = "while" /\ memo'.pc = "while")
            => \A id \in memo.processed \cap DOMAIN memo.colors :
                  /\ id \in DOMAIN memo'.colors
                  /\ memo'.colors[id] = memo.colors[id]]_vars

\* C29: in flowchart mode a connector between two nodes of the diagram shown runs
\* from the middle of the source's right edge to the middle of the target's right
\* edge whenever the target's top is more than 50 above the source's bottom, and as
\* the curve from the source's bottom centre to the target's top centre with control
\* points 60 below and 60 above them when the target's top is more than 50 below
\* the source's bottom.
C29_ConnectorRouting ==
    (flowchartData # NoData /\ diagramType = FLOWCHART) =>
        \A i \in DOMAIN flowchartData.connectors :
            LET conn == flowchartData.connectors[i]
                el == ConnectorElement(flowchartData, diagramType, conn)
                s == Find(flowchartData, conn.from)
                t == Find(flowchartData, conn.to)
                sBottom == RAdd(s.position.y, R(s.size.h))
                bottomCentre == [x |-> Center(s).x, y |-> sBottom]
                topCentre == [x |-> Center(t).x, y |-> t.position.y]
            IN  (s # NoNode /\ t # NoNode) =>
                  /\ RLt(RAdd(t.position.y, R(50)), sBottom) =>
                        /\ el.M = [x |-> RAdd(s.position.x, R(s.size.w)), y |-> Center(s).y]
                        /\ el.E = [x |-> RAdd(t.position.x, R(t.size.w)), y |-> Center(t).y]
                  /\ RLt(RAdd(sBottom, R(50)), t.position.y) =>
                        /\ el.M = bottomCentre
                        /\ el.C1 = [x |-> bottomCentre.x, y |-> RAdd(bottomCentre.y, R(60))]
                        /\ el.C2 = [x |-> topCentre.x, y |-> RSub(topCentre.y, R(60))]
                        /\ el.E = topCentre

\* C31: a pass of the while loop gives every node it colours the colour of the
\* dequeued node, to which a connector joins it; when the loop is left, every
\* coloured node that is not a level-1 node has the colour of a level-1 node from
\* which it can be reached along connectors, in either direction, without passing
\* through the root.
C31_ColourOfFirstReacher ==
    [][memo.pc = "while" =>
         LET data == memo.data
             rootId == memo.root.id
             parentId == Head(memo.queue)
             Joined(a, b) == \E c \in Range(data.connectors) :
                                \/ c.from = a /\ c.to = b
                                \/ c.from = b /\ c.to = a
             level1 == Range(Level1From(data, rootId, 1))
             Step(S) == S \cup {n \in NodeIds(data) \ {rootId} : \E m \in S : Joined(m, n)}
             Around(l) == Step(Step(Step(Step({l}))))
         IN  /\ memo'.pc = "while" =>
                   \A id \in DOMAIN memo'.colors \ DOMAIN memo.colors :
                       /\ memo'.colors[id] = memo.colors[parentId]
                       /\ Joined(parentId, id)
             /\ memo'.pc = "done" =>
                   \A id \in DOMAIN memo.colors \ level1 :
                       \E l \in level1 \ {rootId} :
                           /\ memo.colors[l] = memo.colors[id]
                           /\ id \in Around(l)]_vars

\* the loop has been left for R-A, R-B, R-C, A-A1: A1 has the colour of A, which
\* is not the colour of B
C31_A1ColouredAsA ==
    /\ memo.pc = "done" /\ memo.type = MINDMAP
    /\ memo.data.connectors =
          << Conn("R", "A"), Conn("R", "B"), Conn("R", "C"), Conn("A", "A1") >>
    /\ memo.colors["A1"] = memo.colors["A"]
    /\ memo.colors["A1"] # memo.colors["B"]

\* C32: while a session goes on, the pointer position and the element position
\* recorded at pointer-down stay as recorded, and every live update reports
\* elStart + (pointer - start) / scale for the pointer of the event: the new pan of
\* a canvas session, the new position of the node of a node session.
C32_LivePositionFromStart ==
    [][(drag.isDragging /\ drag'.isDragging) =>
          /\ drag'.start = drag.start /\ drag'.elStart = drag.elStart
          /\ drag'.who = drag.who
          /\ drag'.position # drag.position =>
                /\ \E c \in PointerPts :
                      drag'.position =
                          [x |-> RAdd(drag.elStart.x,
                                      RDiv(R(c.x - drag.start.x), Scale(drag.who))),
                           y |-> RAdd(drag.elStart.y,
                                      RDiv(R(c.y - drag.start.y), Scale(drag.who)))]
                /\ drag.who.kind = "canvas" => pan' = drag'.position
                /\ (drag.who.kind = "node" /\ drag.who.id \in NodeIds(flowchartData)) =>
                      FindNode(flowchartData', drag.who.id).position = drag'.position]_vars

\* a session on n1 under zoom 2: after a move away and a move to (40,20) the node
\* is 20 right of and 10 below where it was at pointer-down
C32_MovedUnderZoomTwo ==
    /\ drag.isDragging /\ drag.who = [kind |-> "node", id |-> "n1"]
    /\ zoom = R(2)
    /\ drag.position = [x |-> RAdd(drag.elStart.x, R(20)), y |-> RAdd(drag.elStart.y, R(10))]
    /\ FindNode(flowchartData, "n1").position = drag.position

\* C33: while two fingers are down, an update of zoom or pan is computed from the
\* zoom and pan of the moment the second finger went down: the zoom is their zoom
\* times current distance over initial distance, kept between 0.2 and 3, the pan
\* is their pan plus focal * (1/newZoom - 1/startZoom), and both are back at
\* those values when the current distance is the initial distance.
C33_PinchFromGestureStart ==
    [][(/\ NTouches = 2 /\ touches' = touches /\ touches.gesture # NoPos
        /\ << zoom', pan' >> # << zoom, pan >>)
          => \E d0 \in StartDists, d \in PinchDists :
                LET g == touches.gesture
                    newZoom == RMax(MinZoom, RMin(MaxZoom, RMul(g.zoom, Rat(d, d0))))
                    k == RSub(RDiv(R(1), newZoom), RDiv(R(1), g.zoom))
                IN  /\ zoom' = newZoom
                    /\ pan' = [x |-> RAdd(g.pan.x, RMul(R(PinchCenter.x), k)),
                               y |-> RAdd(g.pan.y, RMul(R(PinchCenter.y), k))]
                    /\ d = d0 => (zoom' = g.zoom /\ pan' = g.pan)]_vars


\* C34: at most one generation request is in flight: isLoading is true exactly while
\* the request started by handleGenerate has not settled, handleGenerate cannot run
\* while isLoading is true, and a request in flight leads to isLoading being false
\* again, whether it succeeds or fails.
C34_OneRequestInFlight ==
    /\ [](isLoading <=> genReq.pending)
    /\ [](isLoading => ~ENABLED handleGenerate)
    /\ (isLoading ~> ~isLoading)

\* a request has succeeded, a later one has failed, and the spinner is off
C34_SettledBothWays ==
    /\ ~isLoading /\ ~genReq.pending
    /\ error = "Failed to generate flowchart"
    /\ history[1] = Generated(diagramType)

\* C35: when a sub-node request resolves and inserts its nodes, the diagram shown
\* afterwards extends the diagram shown just before: every node of that diagram is
\* still there with its position and size, and every connector too, so that what
\* was committed while the request was in flight is kept.
C35_SubnodesOnCurrentDiagram ==
    [][(subReq.pending /\ ~subReq'.pending /\ flowchartData' # flowchartData)
          => /\ \A i \in DOMAIN flowchartData.nodes :
                   \E j \in DOMAIN flowchartData'.nodes :
                       /\ flowchartData'.nodes[j].id = flowchartData.nodes[i].id
                       /\ flowchartData'.nodes[j].position = flowchartData.nodes[i].position
             /\ \A i \in DOMAIN flowchartData.connectors :
                   \E j \in DOMAIN flowchartData'.connectors :
                       flowchartData'.connectors[j] = flowchartData.connectors[i]]_vars

\* C36: the release of a session on a node, the panel or the resize handle appends
\* one entry to the history, the diagram shown after the release, and moves the
\* index onto it; if the element is where it was when the session started the entry
\* equals the diagram that was shown. The release of a canvas session leaves the
\* history alone, and so does every other step taken while a session is active.
C36_ReleaseAppendsOneEntry ==
    /\ [][(drag.isDragging /\ sess.ended = "none" /\ sess'.ended = "release")
            => IF Commits(drag.who)
               THEN /\ history' = Append(history, flowchartData')
                    /\ historyIndex' = historyIndex + 1
                    /\ (drag.position = drag.elStart /\ flowchartData = sess.shown)
                          => history'[Len(history')] = flowchartData
               ELSE UNCHANGED << history, historyIndex >>]_vars
    /\ [][(drag.isDragging /\ sess'.ended # "release")
            => UNCHANGED << history, historyIndex >>]_vars

\* two sessions were released, the second with its element where it was when the
\* session started: each appended an entry and the last two entries are equal
C36_ReleasedWithoutMove ==
    /\ sess.ended = "release" /\ sess.n = 2 /\ sess.commits = 1
    /\ Len(history) = 3 /\ historyIndex = 2
    /\ history[3] = history[2] /\ history[2] # history[1]
    /\ flowchartData = history[3]

\* C37: the computation of the colour map never throws, and for a mind map without
\* nodes it has returned the empty map
C37_ColorMapNeverThrows ==
    /\ memo.pc # "threw"
    /\ (memo.pc # "props" /\ memo.type = MINDMAP /\ memo.data.nodes = << >>)
          => (memo.pc = "done" /\ memo.colors = NoColors)

\* C38: an undo taken where undo is possible can be followed by a redo, and that
\* redo (with the layout effects that follow each of the two steps) brings back
\* the index and the diagram that was shown before the undo, the history being
\* untouched; likewise for a redo followed by an undo.
C38_UndoRedoRoundTrip ==
    [][(Idle /\ history' = history /\ historyIndex' # historyIndex)
         => LET mid == RunEffects(flowchartData', flowchartData',
                                  pendingMeasure' \cap NodeIds(flowchartData'))
                back == HistAt(history', historyIndex)
                shown == RunEffects(back, back,
                                    Triggered(mid, diagramType, back, diagramType))
            IN  /\ historyIndex' \in {historyIndex - 1, historyIndex + 1}
                /\ historyIndex' = historyIndex - 1 => historyIndex' < Len(history') - 1
                /\ historyIndex' = historyIndex + 1 => historyIndex' > 0
                /\ shown = flowchartData]_vars

====
